---- MODULE Spec2Model ----
(***************************************************************************)
(* Ensemble alignment and pointwise statistics of results/ensemble.py.     *)
(*                                                                         *)
(* A DataFrame is a record [columns, index, data]: the column names in     *)
(* order, the row labels in order, and one tuple of cells per row, the     *)
(* cells in column order (pandas stores and assigns rows positionally).    *)
(* A cell is a record whose field names tell its kind:                     *)
(*   [sep, t]   a date string: t is the instant in hours and sep the       *)
(*              separator written between the calendar date and the hour,  *)
(*              so that "2022-03-02T18:00:00" and "2022-03-02 18:00:00"    *)
(*              are two strings of one instant;                            *)
(*   [int]      an integer (a lead time);                                  *)
(*   [grid]     a 2-D array, a tuple of rows of numbers;                   *)
(*   [nan]      NaN, the missing value pandas fills in.                    *)
(***************************************************************************)
EXTENDS Integers, Sequences, FiniteSets, TLC

VARIABLES
    pc,               \* position of the running script
    exception,        \* the exception that ended the script, or "none"
    files_ddpm,       \* rows of <working_dir>/<member>/y_pred.csv, per member
    files_arome,      \* per requested date, the .npy file that is missing
    dates,            \* load_ensemble_arome: the requested dates
    ddpm,             \* load_ensemble(...)
    arome,            \* load_ensemble_arome(...)
    arome_corrected,  \* correct_dates_for_arome(arome)
    arg_ens_df,       \* compute_pointwise_*: the table
    arg_n_members,    \* compute_pointwise_*: the member count
    arg_params_out,   \* compute_pointwise_*: the requested parameters
    mean_df,          \* outcome of compute_pointwise_mean; synthesis_*: mean_df
    std_df,           \* outcome of compute_pointwise_std; synthesis_*: std_df
    Q5_df,            \* outcome of compute_pointwise_Q5; synthesis_*: Q5_df
    Q95_df,           \* outcome of compute_pointwise_Q95; synthesis_*: Q95_df
    arome_df,         \* group_ensembles: first argument
    ddpm_df,          \* group_ensembles: second argument
    unique_df,        \* group_ensembles(arome_df, ddpm_df)
    unique_swapped,   \* group_ensembles(ddpm_df, arome_df)
    mean_arome,       \* __main__: compute_pointwise_mean(arome, ...)
    std_arome,        \* __main__: compute_pointwise_std(arome, ...)
    Q5_arome,         \* __main__: compute_pointwise_Q5(arome, ...)
    Q95_arome,        \* __main__: compute_pointwise_Q95(arome, ...)
    mean_ddpm,        \* __main__: compute_pointwise_mean(ddpm, ...)
    std_ddpm,         \* __main__: compute_pointwise_std(ddpm, ...)
    Q5_ddpm,          \* __main__: compute_pointwise_Q5(ddpm, ...)
    Q95_ddpm,         \* __main__: compute_pointwise_Q95(ddpm, ...)
    mean,             \* __main__: the variable mean
    std,              \* __main__: the variable std
    Q95,              \* __main__: the variable Q95
    Q5,               \* __main__: the variable Q5
    all_stats_df,     \* synthesis_unique_all_stats_ensemble: all_stats_df
    D,                \* synthesis_stat_distrib: D
    D_std             \* synthesis_stat_distrib: D_std

loadVars == <<files_ddpm, files_arome, dates, ddpm, arome, arome_corrected>>
mergeVars == <<arome_df, ddpm_df, unique_df, unique_swapped>>
statVars ==
    <<arg_ens_df, arg_n_members, arg_params_out, mean_df, std_df, Q5_df, Q95_df>>
mainVars ==
    <<mean_arome, std_arome, Q5_arome, Q95_arome,
      mean_ddpm, std_ddpm, Q5_ddpm, Q95_ddpm,
      mean, std, Q95, Q5, all_stats_df, D, D_std>>
vars == <<pc, exception, loadVars, mergeVars, statVars, mainVars>>

(***************************************************************************)
(* Bounds of the model.                                                    *)
(***************************************************************************)
MaxRows == 2          \* rows of a table handed to group_ensembles
MaxDates == 3         \* dates requested from load_ensemble_arome
NMembers == 2         \* members of each ensemble read by the loaders
MaxFileRows == 2      \* rows of a member's y_pred.csv
MaxStatRows == 2      \* rows of a table handed to compute_pointwise_*
MaxStatMembers == 3   \* members of that table, and member count requested

(***************************************************************************)
(* Values.                                                                 *)
(***************************************************************************)
NaN == [nan |-> TRUE]
None == [none |-> TRUE]

IsInt(cell) == "int" \in DOMAIN cell
IsStr(cell) == "sep" \in DOMAIN cell
IsGrid(cell) == "grid" \in DOMAIN cell

\* The integer cell n.
IntCell(n) == [int |-> n]

\* The date string of instant t (hours) written with separator sep.
DateStr(sep, t) == [sep |-> sep, t |-> t]

\* The grid [[k, 2], [k + 2, 4]].
MkGrid(k) == [grid |-> << <<k, 2>>, <<k + 2, 4>> >>]

\* Order of two date strings as Python and pandas compare strings:
\* "YYYY-MM-DD", then the separator (" " sorts before "T"), then the hour.
SepRank(sep) == IF sep = " " THEN 0 ELSE 1

StrLess(d1, d2) ==
    \/ d1.t \div 24 < d2.t \div 24
    \/ /\ d1.t \div 24 = d2.t \div 24
       /\ \/ SepRank(d1.sep) < SepRank(d2.sep)
          \/ /\ d1.sep = d2.sep
             /\ d1.t % 24 < d2.t % 24

(***************************************************************************)
(* Sequences.                                                              *)
(***************************************************************************)
Range(s) == {s[i] : i \in 1..Len(s)}

RECURSIVE Flatten(_)
Flatten(ss) == IF ss = <<>> THEN <<>> ELSE Head(ss) \o Flatten(Tail(ss))

(***************************************************************************)
(* DataFrame.                                                              *)
(***************************************************************************)
KeyCols == <<"dates", "echeances">>

\* pd.DataFrame([], columns=cols)
DataFrame(cols) == [columns |-> cols, index |-> <<>>, data |-> <<>>]

\* len(df)
len(df) == Len(df.data)

\* position of column c in df
ColPos(df, c) == CHOOSE j \in 1..Len(df.columns) : df.columns[j] = c

HasCol(df, c) == c \in Range(df.columns)

\* df[c].iloc[i], i counted from 1
Cell(df, c, i) == df.data[i][ColPos(df, c)]

\* the (dates, echeances) pair of row i
KeyOf(df, i) == <<Cell(df, "dates", i), Cell(df, "echeances", i)>>

\* the columns of df other than the merge keys, in order
ValueCols(df) == SelectSeq(df.columns, LAMBDA c : c \notin Range(KeyCols))

\* df.loc[len(df)] = row
AppendRow(df, row) ==
    [df EXCEPT !.index = Append(df.index, len(df)),
               !.data = Append(df.data, row)]

\* isna of one cell: an array-valued cell is never missing
isna(cell) == cell = NaN

(***************************************************************************)
(* group_ensembles: DataFrame.merge(how="outer"), dropna(), reset_index.   *)
(***************************************************************************)
\* Order of two (dates, echeances) keys; a missing key sorts last.
CellLess(a, b) ==
    IF isna(a) THEN FALSE
    ELSE IF isna(b) THEN TRUE
    ELSE IF IsInt(a) THEN a.int < b.int
    ELSE StrLess(a, b)

KeyLeq(k1, k2) ==
    \/ CellLess(k1[1], k2[1])
    \/ k1[1] = k2[1] /\ (k1[2] = k2[2] \/ CellLess(k1[2], k2[2]))

RECURSIVE SortKeys(_)
SortKeys(S) ==
    IF S = {} THEN <<>>
    ELSE LET m == CHOOSE k \in S : \A o \in S : KeyLeq(k, o)
         IN <<m>> \o SortKeys(S \ {m})

\* the rows of df (positions, in order) whose key is k
RowsWithKey(df, k) ==
    SelectSeq([i \in 1..len(df) |-> i], LAMBDA i : KeyOf(df, i) = k)

\* the name a value column c takes in the merged table: suffixed when the
\* other table has a value column of the same name
Suffixed(c, other, suffix) ==
    IF c \in Range(ValueCols(other)) THEN c \o suffix ELSE c

MergedColumns(left, right, lsuffix, rsuffix) ==
    [j \in 1..Len(left.columns) |->
        IF left.columns[j] \in Range(KeyCols) THEN left.columns[j]
        ELSE Suffixed(left.columns[j], right, lsuffix)]
    \o [j \in 1..Len(ValueCols(right)) |->
        Suffixed(ValueCols(right)[j], left, rsuffix)]

\* the value cells of row r of df, in column order
ValueCells(df, r) ==
    [j \in 1..Len(ValueCols(df)) |-> Cell(df, ValueCols(df)[j], r)]

\* (mutant) unmatched rows padded with a zero grid instead of NaN
MissingCells_filled(df) ==
    [j \in 1..Len(ValueCols(df)) |-> [grid |-> << <<0, 0>>, <<0, 0>> >>]]

\* the value cells of a row that has no match in df
MissingCells(df) == [j \in 1..Len(ValueCols(df)) |-> NaN]

\* a row laid out as the columns of `left`, holding only the key k
KeyOnlyRow(left, k) ==
    [j \in 1..Len(left.columns) |->
        IF left.columns[j] = "dates" THEN k[1]
        ELSE IF left.columns[j] = "echeances" THEN k[2]
        ELSE NaN]

\* (mutant) a lookup instead of a join: every left row of the key paired
\* with the first right row of that key only
MergedRowsOfKey_first(left, right, k) ==
    LET L == RowsWithKey(left, k)
        R == RowsWithKey(right, k)
    IN  IF L # <<>> /\ R # <<>>
        THEN [a \in 1..Len(L) |-> left.data[L[a]] \o ValueCells(right, R[1])]
        ELSE IF R = <<>>
        THEN [a \in 1..Len(L) |-> left.data[L[a]] \o MissingCells(right)]
        ELSE [b \in 1..Len(R) |->
                 KeyOnlyRow(left, k) \o ValueCells(right, R[b])]

\* the merged rows of one key: every pairing of a left row with a right
\* row of that key, or the unmatched rows padded with NaN
MergedRowsOfKey(left, right, k) ==
    LET L == RowsWithKey(left, k)
        R == RowsWithKey(right, k)
    IN  IF L # <<>> /\ R # <<>>
        THEN Flatten([a \in 1..Len(L) |->
                 [b \in 1..Len(R) |->
                     left.data[L[a]] \o ValueCells(right, R[b])]])
        ELSE IF R = <<>>
        THEN [a \in 1..Len(L) |-> left.data[L[a]] \o MissingCells(right)]
        ELSE [b \in 1..Len(R) |->
                 KeyOnlyRow(left, k) \o ValueCells(right, R[b])]

\* left.merge(right, how="outer", on=["dates", "echeances"],
\*            suffixes=(lsuffix, rsuffix))
merge(left, right, lsuffix, rsuffix) ==
    LET keys == SortKeys({KeyOf(left, i) : i \in 1..len(left)}
                         \cup {KeyOf(right, i) : i \in 1..len(right)})
        rows == Flatten([n \in 1..Len(keys) |->
                            MergedRowsOfKey(left, right, keys[n])])
    IN  [columns |-> MergedColumns(left, right, lsuffix, rsuffix),
         index |-> [n \in 1..Len(rows) |-> n - 1],
         data |-> rows]

\* a row with a missing value in any column
HasNa(row) == \E j \in 1..Len(row) : isna(row[j])

\* (mutant) no row dropped
dropna_keep_all(df) == df

\* df.dropna(): the rows without a missing value, under their labels
dropna(df) ==
    LET keep == SelectSeq([i \in 1..len(df) |-> i],
                          LAMBDA i : ~HasNa(df.data[i]))
    IN  [columns |-> df.columns,
         index |-> [n \in 1..Len(keep) |-> df.index[keep[n]]],
         data |-> [n \in 1..Len(keep) |-> df.data[keep[n]]]]

\* df.reset_index(drop=True)
reset_index(df) == [df EXCEPT !.index = [n \in 1..len(df) |-> n - 1]]

\* (mutant) the two suffixes exchanged
group_ensembles_suffixes_swapped(a_df, d_df) ==
    reset_index(dropna(merge(d_df, a_df, "_arome", "_ddpm")))

\* unique_df = ddpm_df.merge(arome_df, how="outer", on=["dates", "echeances"],
\*                           suffixes=("_ddpm", "_arome"))
\* return unique_df.dropna().reset_index(drop=True)
group_ensembles(a_df, d_df) ==
    reset_index(dropna(merge(d_df, a_df, "_ddpm", "_arome")))

(***************************************************************************)
(* Specification SpecMerge: group_ensembles applied to two tables, in both *)
(* argument orders.  The tables are drawn with up to MaxRows rows; a key   *)
(* may repeat within a table and a value cell may be missing.              *)
(***************************************************************************)
MergeKeys ==
    { <<DateStr("T", 0), IntCell(6)>>,
      <<DateStr("T", 0), IntCell(21)>>,
      <<DateStr("T", 24), IntCell(6)>> }

\* the column layouts of the two arguments
AromeLayouts == { <<"dates", "echeances", "u10">> }
DdpmLayouts == { <<"dates", "echeances", "u10">>,
                 <<"dates", "echeances", "v10", "u10">> }

\* row i of a drawn table: its key, distinct grids numbered from base, and
\* u10 missing when na is set
DrawnRow(cols, key, na, base, i) ==
    [j \in 1..Len(cols) |->
        IF cols[j] = "dates" THEN key[1]
        ELSE IF cols[j] = "echeances" THEN key[2]
        ELSE IF cols[j] = "u10" /\ na THEN NaN
        ELSE MkGrid(base + 10 * j + i)]

DrawnTable(cols, choice, base) ==
    [columns |-> cols,
     index |-> [i \in 1..Len(choice) |-> i - 1],
     data |-> [i \in 1..Len(choice) |->
                  DrawnRow(cols, choice[i][1], choice[i][2], base, i)]]

RowChoices == UNION {[1..n -> MergeKeys \X BOOLEAN] : n \in 0..MaxRows}

\* the variables of the loaders, unused
LoadIdle ==
    /\ files_ddpm = None /\ files_arome = None /\ dates = None
    /\ ddpm = None /\ arome = None /\ arome_corrected = None

\* the variables of the main script, unused
MainIdle ==
    /\ mean_arome = None /\ std_arome = None
    /\ Q5_arome = None /\ Q95_arome = None
    /\ mean_ddpm = None /\ std_ddpm = None
    /\ Q5_ddpm = None /\ Q95_ddpm = None
    /\ mean = None /\ std = None /\ Q95 = None /\ Q5 = None
    /\ all_stats_df = None /\ D = None /\ D_std = None

\* the variables of the statistics, unused
StatIdle ==
    /\ arg_ens_df = None /\ arg_n_members = None /\ arg_params_out = None
    /\ mean_df = None /\ std_df = None /\ Q5_df = None /\ Q95_df = None

InitMerge ==
    /\ MainIdle
    /\ pc = "group"
    /\ exception = "none"
    /\ LoadIdle
    /\ StatIdle
    /\ \E cols \in AromeLayouts, choice \in RowChoices :
          arome_df = DrawnTable(cols, choice, 100)
    /\ \E cols \in DdpmLayouts, choice \in RowChoices :
          ddpm_df = DrawnTable(cols, choice, 200)
    /\ unique_df = None
    /\ unique_swapped = None

\* unique_df = group_ensembles(arome_df, ddpm_df)
GroupEnsembles ==
    /\ pc = "group"
    /\ unique_df' = group_ensembles(arome_df, ddpm_df)
    /\ pc' = "swap"
    /\ UNCHANGED <<mainVars, exception, loadVars, statVars, arome_df, ddpm_df,
                   unique_swapped>>

\* the same call with the arguments exchanged
GroupEnsemblesSwapped ==
    /\ pc = "swap"
    /\ unique_swapped' = group_ensembles(ddpm_df, arome_df)
    /\ pc' = "done"
    /\ UNCHANGED <<mainVars, exception, loadVars, statVars, arome_df, ddpm_df, unique_df>>

NextMerge == GroupEnsembles \/ GroupEnsemblesSwapped

SpecMerge == InitMerge /\ [][NextMerge]_vars

(***************************************************************************)
(* Properties of group_ensembles (SpecMerge).                              *)
(***************************************************************************)
Keys(df) == {KeyOf(df, i) : i \in 1..len(df)}

\* the rows of df that hold no missing value
FullRows(df) == {i \in 1..len(df) : ~HasNa(df.data[i])}

\* the keys df holds in a row without a missing value
FullKeys(df) == {KeyOf(df, i) : i \in FullRows(df)}

\* the pairs (row of ddpm_df, row of arome_df) an inner join of the fully
\* populated rows makes
InnerPairs(a_df, d_df) ==
    {p \in FullRows(d_df) \X FullRows(a_df) :
        KeyOf(d_df, p[1]) = KeyOf(a_df, p[2])}

DenseIndex(df) == df.index = [n \in 1..len(df) |-> n - 1]

Merged == pc \in {"swap", "done"}

\* C3: group_ensembles(arome_df, ddpm_df) returns exactly the rows of an
\* inner join on (dates, echeances) of the fully populated rows of the two
\* tables: one output row per matching pair of rows, a key is in the output
\* if and only if both inputs hold it in a row without a missing value, and
\* the output index is 0, 1, ..., n-1.
C3_InnerJoin ==
    Merged =>
        /\ Range(unique_df.data) =
              {ddpm_df.data[p[1]] \o ValueCells(arome_df, p[2]) :
                  p \in InnerPairs(arome_df, ddpm_df)}
        /\ len(unique_df) = Cardinality(InnerPairs(arome_df, ddpm_df))
        /\ Keys(unique_df) = FullKeys(arome_df) \cap FullKeys(ddpm_df)
        /\ DenseIndex(unique_df)

\* C3 witness: the inputs share a key, each holds a key the other lacks or a
\* row with a missing value, and the output is not empty.
C3_Witness ==
    /\ Merged
    /\ len(unique_df) > 0
    /\ Keys(arome_df) \ Keys(ddpm_df) # {}
    /\ Keys(ddpm_df) \ FullKeys(ddpm_df) # {}
    /\ len(unique_df) < len(arome_df)

Min(a, b) == IF a <= b THEN a ELSE b

\* the smaller and the larger of the two tables
Smaller(a_df, d_df) == IF len(a_df) <= len(d_df) THEN a_df ELSE d_df
Larger(a_df, d_df) == IF len(a_df) <= len(d_df) THEN d_df ELSE a_df

UniqueKeys(df) == Cardinality(Keys(df)) = len(df)

\* C4 as stated: for any two tables the output has at most min(|A|, |B|)
\* rows, and exactly that many if and only if every key of the smaller table
\* exists in the larger one.
C4_RowCountAnyTables ==
    Merged =>
        /\ len(unique_df) <= Min(len(arome_df), len(ddpm_df))
        /\ len(unique_df) = Min(len(arome_df), len(ddpm_df))
              <=> Keys(Smaller(arome_df, ddpm_df))
                     \subseteq Keys(Larger(arome_df, ddpm_df))

\* C4 amended: when no key repeats within either table, the output has at
\* most min(|A|, |B|) rows; when moreover no row of either table holds a
\* missing value, it has exactly min(|A|, |B|) rows if and only if every key
\* of the smaller table exists in the larger one.
C4_RowCountUniqueKeys ==
    (Merged /\ UniqueKeys(arome_df) /\ UniqueKeys(ddpm_df)) =>
        /\ len(unique_df) <= Min(len(arome_df), len(ddpm_df))
        /\ (FullRows(arome_df) = 1..len(arome_df)
              /\ FullRows(ddpm_df) = 1..len(ddpm_df))
           => (len(unique_df) = Min(len(arome_df), len(ddpm_df))
                 <=> Keys(Smaller(arome_df, ddpm_df))
                        \subseteq Keys(Larger(arome_df, ddpm_df)))

\* C4 witness: two fully populated tables of different sizes without
\* repeated keys, the smaller one's keys all in the larger one, merged into
\* as many rows as the smaller one has.
C4_Witness ==
    /\ Merged
    /\ UniqueKeys(arome_df) /\ UniqueKeys(ddpm_df)
    /\ FullRows(arome_df) = 1..len(arome_df)
    /\ FullRows(ddpm_df) = 1..len(ddpm_df)
    /\ 0 < len(arome_df) /\ len(arome_df) < len(ddpm_df)
    /\ Keys(arome_df) \subseteq Keys(ddpm_df)
    /\ len(unique_df) = len(arome_df)

\* Row i of a merge result read by source column: its key, the cell it holds
\* for every value column of table A and for every value column of table B,
\* where asuffix and bsuffix are the suffixes the call gave the two tables.
BySource(out, i, A, B, asuffix, bsuffix) ==
    [key |-> KeyOf(out, i),
     a |-> [j \in 1..Len(ValueCols(A)) |->
               Cell(out, Suffixed(ValueCols(A)[j], B, asuffix), i)],
     b |-> [j \in 1..Len(ValueCols(B)) |->
               Cell(out, Suffixed(ValueCols(B)[j], A, bsuffix), i)]]

\* C5: group_ensembles(A, B) and group_ensembles(B, A) hold the same keys
\* and the same rows of grids per key once each column is read under the
\* suffix its source carries in that call; they differ only in the suffixes
\* and in the order of the columns.
C5_Commutative ==
    pc = "done" =>
        /\ Keys(unique_df) = Keys(unique_swapped)
        /\ len(unique_df) = len(unique_swapped)
        /\ {BySource(unique_df, i, arome_df, ddpm_df, "_arome", "_ddpm") :
               i \in 1..len(unique_df)}
           = {BySource(unique_swapped, i, arome_df, ddpm_df, "_ddpm", "_arome") :
               i \in 1..len(unique_swapped)}
        /\ Range(unique_df.columns) = Range(unique_swapped.columns)

\* C5 witness: both calls were made on tables that share a key, and the
\* results hold more than one row.
C5_Witness ==
    /\ pc = "done"
    /\ len(unique_df) > 1
    /\ len(unique_swapped) > 1
    /\ unique_df.columns # unique_swapped.columns

\* the value columns both tables have
SharedCols(a_df, d_df) == Range(ValueCols(a_df)) \cap Range(ValueCols(d_df))

Occurrences(cols, c) == Cardinality({j \in 1..Len(cols) : cols[j] = c})

\* C6: in group_ensembles(arome_df, ddpm_df) dates and echeances appear
\* once, every other column name of both inputs appears once with suffix
\* _arome and once with suffix _ddpm and not bare, no column name repeats,
\* and every row holds under c_arome the cell of a row of arome_df and under
\* c_ddpm the cell of a row of ddpm_df of the same key.
C6_Suffixes ==
    Merged =>
        /\ Occurrences(unique_df.columns, "dates") = 1
        /\ Occurrences(unique_df.columns, "echeances") = 1
        /\ \A c \in SharedCols(arome_df, ddpm_df) :
              /\ Occurrences(unique_df.columns, c \o "_arome") = 1
              /\ Occurrences(unique_df.columns, c \o "_ddpm") = 1
              /\ Occurrences(unique_df.columns, c) = 0
        /\ Cardinality(Range(unique_df.columns)) = Len(unique_df.columns)
        /\ \A i \in 1..len(unique_df) :
              \E ra \in 1..len(arome_df), rd \in 1..len(ddpm_df) :
                 /\ KeyOf(arome_df, ra) = KeyOf(unique_df, i)
                 /\ KeyOf(ddpm_df, rd) = KeyOf(unique_df, i)
                 /\ \A c \in SharedCols(arome_df, ddpm_df) :
                       /\ Cell(unique_df, c \o "_arome", i) = Cell(arome_df, c, ra)
                       /\ Cell(unique_df, c \o "_ddpm", i) = Cell(ddpm_df, c, rd)

\* C6 witness: a merged table with a row, made from inputs that share the
\* column u10 while only one of them has v10.
C6_Witness ==
    /\ Merged
    /\ len(unique_df) > 0
    /\ HasCol(ddpm_df, "v10")
    /\ HasCol(unique_df, "u10_arome")
    /\ HasCol(unique_df, "v10")

(***************************************************************************)
(* Configuration of the script, scaled down.                               *)
(***************************************************************************)
params == <<"u10", "v10">>

echeances_arome == <<12, 27>>

\* utils.get_shape_2km5(): the shape of the domain
domain_shape == <<2, 2>>

\* the column of parameter p for member j
MemberCol(p, j) == p \o "_" \o ToString(j)

(***************************************************************************)
(* load_ensemble_arome.                                                    *)
(*                                                                         *)
(* files_arome[d] names the file of the d-th requested date that does not  *)
(* exist, as <<member, parameter index>>, or is <<0, 0>> when all exist.   *)
(***************************************************************************)
NoFile == <<0, 0>>

\* the content of <data_location><m>/GC81_<date d>Z_<param ip>.npy: an array
\* of shape (height, width, lead times), here the grid number
\* 1000 m + 100 d + 10 ip + e at lead time e
NpyArray(m, d, ip) ==
    [h \in 1..domain_shape[1] |->
        [w \in 1..domain_shape[2] |->
            [e \in 1..Len(echeances_arome) |->
                MkGrid(1000 * m + 100 * d + 10 * ip + e).grid[h][w]]]]

\* np.load(filepath): the array, or FileNotFoundError
np_load(data_location, m, d, ip) ==
    IF data_location[d] = <<m, ip>>
    THEN [raise |-> "FileNotFoundError"]
    ELSE [array |-> NpyArray(m, d, ip)]

\* array.transpose([2, 0, 1]): the lead time becomes the leading axis
transpose201(array) ==
    [e \in 1..Len(array[1][1]) |->
        [h \in 1..Len(array) |->
            [w \in 1..Len(array[1]) |-> array[h][w][e]]]]

\* the try block of one date: ens_d[i_m, i_ech, :, :, i_p] filled from every
\* (member, parameter) file, or the exception the first failing load raises
TryLoadDay(data_location, d, echs, prms, n_members) ==
    LET loads == [m \in 1..n_members |->
                    [ip \in 1..Len(prms) |-> np_load(data_location, m, d, ip)]]
    IN  IF \E m \in 1..n_members, ip \in 1..Len(prms) :
              "raise" \in DOMAIN loads[m][ip]
        THEN [raise |-> "FileNotFoundError"]
        ELSE [ens_d |->
                [m \in 1..n_members |->
                    [e \in 1..Len(echs) |->
                        [ip \in 1..Len(prms) |->
                            [grid |-> transpose201(loads[m][ip].array)[e]]]]]]

\* (mutant) an except clause for another exception
Caught_KeyError(exc) == exc = "KeyError"

\* the except clause: which exception it catches
Caught(exc) == exc = "FileNotFoundError"

\* (mutant) a date with a missing file yields rows of missing cells
LoadDay_null_rows(data_location, d, echs, prms, n_members) ==
    LET r == TryLoadDay(data_location, d, echs, prms, n_members)
    IN  IF "raise" \in DOMAIN r /\ Caught(r.raise)
        THEN [ens_d |-> [m \in 1..n_members |->
                           [e \in 1..Len(echs) |->
                               [ip \in 1..Len(prms) |-> NaN]]]]
        ELSE r

\* the try statement of one date: the filled ens_d, ens_d = None after a
\* caught exception (skip), or the exception that escapes
LoadDay(data_location, d, echs, prms, n_members) ==
    LET r == TryLoadDay(data_location, d, echs, prms, n_members)
    IN  IF "raise" \in DOMAIN r /\ Caught(r.raise) THEN [skip |-> TRUE] ELSE r

\* the rows appended for one loaded date, one per lead time
DayRows(date, echs, prms, n_members, ens_d) ==
    [ie \in 1..Len(echs) |->
        <<date, IntCell(echs[ie])>>
        \o Flatten([ip \in 1..Len(prms) |->
               [m \in 1..n_members |-> ens_d[m][ie][ip]]])]

RECURSIVE AppendRows(_, _)
AppendRows(df, rows) ==
    IF rows = <<>> THEN df
    ELSE AppendRows(AppendRow(df, Head(rows)), Tail(rows))

\* the loop over the dates from the d-th on; the result is the table and
\* the exception that escaped, if any
RECURSIVE LoadDates(_, _, _, _, _, _, _)
LoadDates(ens_df, dts, d, echs, prms, n_members, data_location) ==
    IF d > Len(dts) THEN [df |-> ens_df, raise |-> "none"]
    ELSE LET day == LoadDay(data_location, d, echs, prms, n_members)
         IN  IF "raise" \in DOMAIN day
             THEN [df |-> ens_df, raise |-> day.raise]
             ELSE LoadDates(
                      IF "skip" \in DOMAIN day THEN ens_df
                      ELSE AppendRows(ens_df,
                               DayRows(dts[d], echs, prms, n_members, day.ens_d)),
                      dts, d + 1, echs, prms, n_members, data_location)

load_ensemble_arome(dts, echs, prms, n_members, data_location) ==
    LoadDates(
        DataFrame(<<"dates", "echeances">>
                  \o Flatten([ip \in 1..Len(prms) |->
                         [j \in 1..n_members |-> MemberCol(prms[ip], j)]])),
        dts, 1, echs, prms, n_members, data_location)

(***************************************************************************)
(* correct_dates_for_arome.                                                *)
(***************************************************************************)
\* utils.get_arrays_cols(df): the columns that hold arrays, in order
get_arrays_cols(df) == ValueCols(df)

\* timedelta(hours = 6), in hours
delta == 6

\* datetime.fromisoformat(s): the instant a date string denotes, whatever the
\* separator it is written with
fromisoformat(str) == str.t

\* datetime.isoformat(): the instant written "YYYY-MM-DDTHH:MM:SS"
isoformat(t) == DateStr("T", t)

\* (mutant) the date shifted backwards
CorrectedRow_minus(df, channels, i) ==
    << isoformat(fromisoformat(Cell(df, "dates", i)) - delta),
       IntCell(Cell(df, "echeances", i).int - 6) >>
    \o [j \in 1..Len(channels) |-> Cell(df, channels[j], i)]

\* (mutant) the lead time left as it was
CorrectedRow_same_echeance(df, channels, i) ==
    << isoformat(fromisoformat(Cell(df, "dates", i)) + delta),
       Cell(df, "echeances", i) >>
    \o [j \in 1..Len(channels) |-> Cell(df, channels[j], i)]

\* the row written for row i: the shifted key, then the cell of every channel
CorrectedRow(df, channels, i) ==
    << isoformat(fromisoformat(Cell(df, "dates", i)) + delta),
       IntCell(Cell(df, "echeances", i).int - 6) >>
    \o [j \in 1..Len(channels) |-> Cell(df, channels[j], i)]

correct_dates_for_arome(arome_ens_df) ==
    AppendRows(DataFrame(arome_ens_df.columns),
               [i \in 1..len(arome_ens_df) |->
                   CorrectedRow(arome_ens_df, get_arrays_cols(arome_ens_df), i)])

(***************************************************************************)
(* load_ensemble.                                                          *)
(***************************************************************************)
\* y_m.rename(columns={p: p + "_" + str(m) for p in params})
rename(y_m, prms, m) ==
    [y_m EXCEPT !.columns =
        [j \in 1..Len(y_m.columns) |->
            IF y_m.columns[j] \in Range(prms)
            THEN MemberCol(y_m.columns[j], m) ELSE y_m.columns[j]]]

\* y_m.drop(columns=cols)
drop(y_m, cols) ==
    LET keep == SelectSeq([j \in 1..Len(y_m.columns) |-> j],
                          LAMBDA j : y_m.columns[j] \notin Range(cols))
    IN  [columns |-> [n \in 1..Len(keep) |-> y_m.columns[keep[n]]],
         index |-> y_m.index,
         data |-> [i \in 1..len(y_m) |->
                      [n \in 1..Len(keep) |-> y_m.data[i][keep[n]]]]]

\* the row of df labelled l, or a row of NaN when df has no such label
RowAt(df, l) ==
    IF l \in Range(df.index)
    THEN df.data[CHOOSE n \in 1..len(df) : df.index[n] = l]
    ELSE [j \in 1..Len(df.columns) |-> NaN]

\* pd.concat([a, b], axis=1): the columns of a then those of b, the rows
\* aligned on their labels, every label of either table kept
concat_axis1(a, b) ==
    LET idx == a.index \o SelectSeq(b.index, LAMBDA l : l \notin Range(a.index))
    IN  [columns |-> a.columns \o b.columns,
         index |-> idx,
         data |-> [n \in 1..Len(idx) |-> RowAt(a, idx[n]) \o RowAt(b, idx[n])]]

\* the loop over the members from the m-th on
RECURSIVE LoadMembers(_, _, _, _, _)
LoadMembers(ens_df, working_dir, m, n_members, prms) ==
    IF m > n_members THEN ens_df
    ELSE LET y_m == IF m = 1 THEN rename(working_dir[m], prms, m)
                    ELSE drop(rename(working_dir[m], prms, m), KeyCols)
         IN  LoadMembers(concat_axis1(ens_df, y_m), working_dir, m + 1,
                         n_members, prms)

load_ensemble(working_dir, n_members, prms) ==
    LoadMembers(DataFrame(<<>>), working_dir, 1, n_members, prms)

(***************************************************************************)
(* Specification SpecLoad: the two loaders, the date correction and the    *)
(* merge of the two ensembles, over drawn file systems.                    *)
(***************************************************************************)
\* the instant (hours) of the i-th requested date: 18h on day i
RequestedInstant(i) == 18 + 24 * (i - 1)

\* <working_dir>/<m>/y_pred.csv with r rows: the samples of the corrected
\* Arome keys in order, one grid per parameter
PredFile(m, r) ==
    [columns |-> KeyCols \o params,
     index |-> [j \in 1..r |-> j - 1],
     data |-> [j \in 1..r |->
        << DateStr("T", RequestedInstant(((j - 1) \div Len(echeances_arome)) + 1)
                        + delta),
           IntCell(echeances_arome[((j - 1) % Len(echeances_arome)) + 1] - 6) >>
        \o [ip \in 1..Len(params) |-> MkGrid(5000 + 100 * m + 10 * j + ip)]]]

\* the variables of group_ensembles' two direct calls, unused
MergeIdle == arome_df = None /\ ddpm_df = None /\ unique_swapped = None

InitLoad ==
    /\ MainIdle
    /\ pc = "load_ensemble"
    /\ exception = "none"
    /\ \E n \in 1..MaxDates, sep \in {"T", " "} :
          /\ dates = [i \in 1..n |-> DateStr(sep, RequestedInstant(i))]
          /\ files_arome \in
                [1..n -> {NoFile} \cup ((1..NMembers) \X (1..Len(params)))]
    /\ \E r \in 0..MaxFileRows, short \in 0..NMembers :
          files_ddpm = [m \in 1..NMembers |->
                           PredFile(m, IF m = short /\ r > 0 THEN r - 1 ELSE r)]
    /\ ddpm = None /\ arome = None /\ arome_corrected = None
    /\ MergeIdle
    /\ unique_df = None
    /\ StatIdle

\* ddpm = load_ensemble(working_dir, n_members, params)
LoadEnsemble ==
    /\ pc = "load_ensemble"
    /\ ddpm' = load_ensemble(files_ddpm, NMembers, params)
    /\ pc' = "load_ensemble_arome"
    /\ UNCHANGED <<mainVars, exception, files_ddpm, files_arome, dates, arome,
                   arome_corrected, mergeVars, statVars>>

\* arome = load_ensemble_arome(dates, echeances, params, n_members,
\*                             data_location)
LoadEnsembleArome ==
    /\ pc = "load_ensemble_arome"
    /\ LET r == load_ensemble_arome(dates, echeances_arome, params, NMembers,
                                    files_arome)
       IN  IF r.raise = "none"
           THEN arome' = r.df /\ pc' = "correct_dates" /\ UNCHANGED exception
           ELSE exception' = r.raise /\ pc' = "raised" /\ UNCHANGED arome
    /\ UNCHANGED <<mainVars, files_ddpm, files_arome, dates, ddpm, arome_corrected,
                   mergeVars, statVars>>

\* arome = correct_dates_for_arome(arome)
CorrectDates ==
    /\ pc = "correct_dates"
    /\ arome_corrected' = correct_dates_for_arome(arome)
    /\ pc' = "group_ensembles"
    /\ UNCHANGED <<mainVars, exception, files_ddpm, files_arome, dates, ddpm, arome,
                   mergeVars, statVars>>

\* unique_df = group_ensembles(arome, ddpm)
GroupLoaded ==
    /\ pc = "group_ensembles"
    /\ unique_df' = group_ensembles(arome_corrected, ddpm)
    /\ pc' = "done"
    /\ UNCHANGED <<mainVars, exception, loadVars, statVars, arome_df, ddpm_df,
                   unique_swapped>>

NextLoad == LoadEnsemble \/ LoadEnsembleArome \/ CorrectDates \/ GroupLoaded

SpecLoad == InitLoad /\ [][NextLoad]_vars

(***************************************************************************)
(* Properties of the loaders and of correct_dates_for_arome (SpecLoad).    *)
(***************************************************************************)
Corrected == pc \in {"group_ensembles", "done"}

\* C1: correct_dates_for_arome returns as many rows, in the same order, and
\* the same columns in the same order as its input; in every row the date is
\* the instant of the input date plus 6 hours (written in ISO form), the
\* lead time is the input lead time minus 6, and every other cell is the
\* grid the input holds in that column of that row.
C1_CorrectDates ==
    Corrected =>
        /\ arome_corrected.columns = arome.columns
        /\ len(arome_corrected) = len(arome)
        /\ arome_corrected.index = arome.index
        /\ \A i \in 1..len(arome) :
              /\ Cell(arome_corrected, "dates", i)
                    = DateStr("T", Cell(arome, "dates", i).t + 6)
              /\ Cell(arome_corrected, "echeances", i).int
                    = Cell(arome, "echeances", i).int - 6
              /\ \A j \in 3..Len(arome.columns) :
                    /\ IsGrid(arome.data[i][j])
                    /\ arome_corrected.data[i][j] = arome.data[i][j]

\* C1 witness: a loaded table of several dates has been corrected.
C1_Witness ==
    /\ Corrected
    /\ len(arome_corrected) > Len(echeances_arome)
    /\ Cell(arome_corrected, "dates", 1).t = Cell(arome, "dates", 1).t + 6

\* the inverse shift of the claim: every date minus 6 hours, every lead time
\* plus 6, the grids as they are
align_inverse(df) ==
    [df EXCEPT !.data =
        [i \in 1..len(df) |->
            [j \in 1..Len(df.columns) |->
                IF df.columns[j] = "dates"
                THEN DateStr("T", df.data[i][j].t - 6)
                ELSE IF df.columns[j] = "echeances"
                THEN IntCell(df.data[i][j].int + 6)
                ELSE df.data[i][j]]]]

\* df with every date written in ISO form
IsoDates(df) ==
    [df EXCEPT !.data =
        [i \in 1..len(df) |->
            [j \in 1..Len(df.columns) |->
                IF df.columns[j] = "dates"
                THEN DateStr("T", df.data[i][j].t)
                ELSE df.data[i][j]]]]

\* the key of row i read as (instant, lead time)
InstantKey(df, i) == <<Cell(df, "dates", i).t, Cell(df, "echeances", i).int>>

\* C2 as stated: distinct keys are never mapped to the same key, and the
\* inverse shift followed by the alignment returns every row unchanged.
C2_Bijection ==
    Corrected =>
        /\ \A i, j \in 1..len(arome) :
              KeyOf(arome, i) # KeyOf(arome, j)
                 => KeyOf(arome_corrected, i) # KeyOf(arome_corrected, j)
        /\ correct_dates_for_arome(align_inverse(arome)) = arome
        /\ correct_dates_for_arome(align_inverse(arome_corrected))
              = arome_corrected

\* C2 amended: keys of distinct (instant, lead time) are never mapped to the
\* same key, and the inverse shift followed by the alignment returns every
\* row with its lead time and grids unchanged and its date written in ISO
\* form: the row itself exactly when its date was written so.
C2_BijectionIso ==
    Corrected =>
        /\ \A i, j \in 1..len(arome) :
              InstantKey(arome, i) # InstantKey(arome, j)
                 => KeyOf(arome_corrected, i) # KeyOf(arome_corrected, j)
        /\ correct_dates_for_arome(align_inverse(arome)) = IsoDates(arome)
        /\ (correct_dates_for_arome(align_inverse(arome)) = arome)
              <=> (\A i \in 1..len(arome) : Cell(arome, "dates", i).sep = "T")
        /\ correct_dates_for_arome(align_inverse(arome_corrected))
              = arome_corrected

\* C2 witness: a table whose dates are written with a blank separator has
\* been corrected.
C2_Witness ==
    /\ Corrected
    /\ len(arome) > Len(echeances_arome)
    /\ Cell(arome, "dates", 1).sep = " "
    /\ Cell(arome_corrected, "dates", 1).sep = "T"

\* the dates all of whose files exist
AvailableDates == {i \in 1..Len(dates) : files_arome[i] = NoFile}

\* the keys load_ensemble_arome is to return: for every date whose files
\* all exist, in order, one key per lead time, in order
ExpectedKeys ==
    Flatten([i \in 1..Len(dates) |->
                IF i \in AvailableDates
                THEN [e \in 1..Len(echeances_arome) |->
                         <<dates[i], IntCell(echeances_arome[e])>>]
                ELSE <<>>])

AromeLoaded == pc \in {"correct_dates", "group_ensembles", "done"}

\* C7: load_ensemble_arome lets no exception escape; the table holds no row
\* of a date with a missing file and, for every other date, in order, one
\* row per lead time, in order, none of them with a missing cell; with 3
\* dates of which the second has a missing file, it holds rows of exactly
\* the first and the third.
C7_MissingDaySkipped ==
    /\ pc # "raised" /\ exception = "none"
    /\ (pc \notin {"load_ensemble", "load_ensemble_arome"}) =>
          /\ [i \in 1..len(arome) |-> KeyOf(arome, i)] = ExpectedKeys
          /\ FullRows(arome) = 1..len(arome)
          /\ DenseIndex(arome)
          /\ (Len(dates) = 3 /\ AvailableDates = {1, 3}) =>
                {Cell(arome, "dates", i) : i \in 1..len(arome)}
                   = {dates[1], dates[3]}

\* C7 witness: three dates were requested, a file of the second is missing,
\* and the table holds the rows of the other two.
C7_Witness ==
    /\ AromeLoaded
    /\ Len(dates) = 3
    /\ AvailableDates = {1, 3}
    /\ len(arome) = 2 * Len(echeances_arome)

\* the tables built so far
Built == {df \in {ddpm, arome, arome_corrected, unique_df} : df # None}

\* C8 as stated: no table produced by a loader, by correct_dates_for_arome
\* or by group_ensembles holds a row with a missing cell.
C8_NoNullCell == \A df \in Built : FullRows(df) = 1..len(df)

\* the member files read by load_ensemble hold the same row labels
SameRowLabels == \A m \in 1..NMembers : files_ddpm[m].index = files_ddpm[1].index

\* C8 amended: no table produced by load_ensemble_arome, by
\* correct_dates_for_arome or by group_ensembles holds a row with a missing
\* cell, and neither does the table of load_ensemble when the member files
\* hold the same row labels (and no missing cell themselves).
C8_NoNullCellAlignedFiles ==
    /\ \A df \in Built \ {ddpm} : FullRows(df) = 1..len(df)
    /\ (ddpm # None /\ SameRowLabels) => FullRows(ddpm) = 1..len(ddpm)

\* C8 witness: member files of equal length, a date skipped for a missing
\* file, and all four tables built, the merged one not empty.
C8_Witness ==
    /\ pc = "done"
    /\ SameRowLabels
    /\ AvailableDates # 1..Len(dates)
    /\ len(ddpm) > 1
    /\ len(unique_df) > 0

(***************************************************************************)
(* Numbers of the statistics.  The cells of the input grids are integers;  *)
(* numpy reduces them in floating point, modelled here exactly: a fraction *)
(* is a record [num, den] in lowest terms with den > 0, and the standard   *)
(* deviation is a record [sqrt] holding the variance it is the root of.    *)
(***************************************************************************)
Abs(x) == IF x < 0 THEN -x ELSE x

RECURSIVE GCD(_, _)
GCD(a, b) == IF b = 0 THEN a ELSE GCD(b, a % b)

Rat(n, d) ==
    LET g == GCD(Abs(n), Abs(d))
        sgn == IF d < 0 THEN -1 ELSE 1
    IN  [num |-> sgn * (n \div g), den |-> sgn * (d \div g)]

RatAdd(x, y) == Rat(x.num * y.den + y.num * x.den, x.den * y.den)
RatSub(x, y) == Rat(x.num * y.den - y.num * x.den, x.den * y.den)
RatMul(x, y) == Rat(x.num * y.num, x.den * y.den)
RatLeq(x, y) == x.num * y.den <= y.num * x.den

RECURSIVE Sum(_)
Sum(vals) == IF vals = <<>> THEN 0 ELSE Head(vals) + Sum(Tail(vals))

RECURSIVE RatSum(_)
RatSum(vals) ==
    IF vals = <<>> THEN Rat(0, 1) ELSE RatAdd(Head(vals), RatSum(Tail(vals)))

\* vals in ascending order
RECURSIVE Sorted(_)
Sorted(vals) ==
    IF vals = <<>> THEN <<>>
    ELSE LET m == CHOOSE i \in 1..Len(vals) : \A j \in 1..Len(vals) : vals[i] <= vals[j]
         IN  <<vals[m]>>
             \o Sorted([j \in 1..(Len(vals) - 1) |->
                           IF j < m THEN vals[j] ELSE vals[j + 1]])

\* (mutant) the mean in integer arithmetic
np_mean_floor(vals) == Rat(Sum(vals) \div Len(vals), 1)

\* array_p.mean(axis=0) at one cell: the arithmetic mean of the members
np_mean(vals) == Rat(Sum(vals), Len(vals))

\* (mutant) the root of the mean square, the mean not subtracted
np_std_uncentered(vals) ==
    LET sq == [j \in 1..Len(vals) |-> Rat(vals[j] * vals[j], 1)]
    IN  [sqrt |-> RatMul(RatSum(sq), Rat(1, Len(vals)))]

\* array_p.std(axis=0) at one cell: the root of the mean squared deviation
\* from the mean (ddof = 0)
np_std(vals) ==
    LET mu == np_mean(vals)
        dev == [j \in 1..Len(vals) |->
                   RatMul(RatSub(Rat(vals[j], 1), mu), RatSub(Rat(vals[j], 1), mu))]
    IN  [sqrt |-> RatMul(RatSum(dev), Rat(1, Len(vals)))]

\* (mutant) the position counted from the largest value
np_percentile_from_top(vals, q) ==
    LET a == Sorted(vals)
        lo == ((Len(vals) - 1) * (100 - q)) \div 100
        frac == Rat(((Len(vals) - 1) * (100 - q)) % 100, 100)
    IN  IF frac.num = 0 THEN Rat(a[lo + 1], 1)
        ELSE RatAdd(Rat(a[lo + 1], 1),
                    RatMul(frac, Rat(a[lo + 2] - a[lo + 1], 1)))

\* np.percentile(array_p, q, axis=0) at one cell: linear interpolation
\* between the order statistics around position (n - 1) q / 100
np_percentile(vals, q) ==
    LET a == Sorted(vals)
        lo == ((Len(vals) - 1) * q) \div 100
        frac == Rat(((Len(vals) - 1) * q) % 100, 100)
    IN  IF frac.num = 0 THEN Rat(a[lo + 1], 1)
        ELSE RatAdd(Rat(a[lo + 1], 1),
                    RatMul(frac, Rat(a[lo + 2] - a[lo + 1], 1)))

(***************************************************************************)
(* compute_pointwise_mean, _std, _Q5, _Q95: one body, four reductions.     *)
(***************************************************************************)
\* ens_df[p + "_" + str(j + 1)] raises KeyError for a column ens_df lacks
MissingColumn(ens_df, n_members, params_out) ==
    \E ip \in 1..Len(params_out), j \in 1..n_members :
        ~HasCol(ens_df, MemberCol(params_out[ip], j))

\* array_p = np.array([ens_df[p + "_" + str(j + 1)].iloc[i]
\*                     for j in range(n_members)])
MemberGrids(ens_df, p, i, n_members) ==
    [j \in 1..n_members |-> Cell(ens_df, MemberCol(p, j), i).grid]

\* the reduction each of the four functions applies to the member values
Reduce(stat, vals) ==
    CASE stat = "mean" -> np_mean(vals)
      [] stat = "std"  -> np_std(vals)
      [] stat = "Q5"   -> np_percentile(vals, 5)
      [] stat = "Q95"  -> np_percentile(vals, 95)

\* the reduction along the member axis (axis=0), cell by cell
ReduceAxis0(array_p, stat) ==
    [h \in 1..Len(array_p[1]) |->
        [w \in 1..Len(array_p[1][1]) |->
            Reduce(stat, [m \in 1..Len(array_p) |-> array_p[m][h][w]])]]

\* (mutant) every row written under the key of the first row
StatKey_first(ens_df, i) ==
    <<Cell(ens_df, "dates", 1), Cell(ens_df, "echeances", 1)>>

\* [ens_df.dates.iloc[i], ens_df.echeances.iloc[i]]
StatKey(ens_df, i) ==
    <<Cell(ens_df, "dates", i), Cell(ens_df, "echeances", i)>>

\* the row appended for row i: its key, then one reduced grid per parameter
StatRow(ens_df, i, n_members, params_out, stat) ==
    StatKey(ens_df, i)
    \o [ip \in 1..Len(params_out) |->
           [grid |-> ReduceAxis0(
                        MemberGrids(ens_df, params_out[ip], i, n_members), stat)]]

\* (mutant) the key of the first row read before the loop over the rows
compute_pointwise_reads_first_row(ens_df, n_members, params_out, stat) ==
    IF len(ens_df) = 0
    THEN [raise |-> "IndexError"]
    ELSE IF MissingColumn(ens_df, n_members, params_out)
    THEN [raise |-> "KeyError"]
    ELSE [df |-> AppendRows(
                    DataFrame(<<"dates", "echeances">> \o params_out),
                    [i \in 1..len(ens_df) |->
                        StatRow(ens_df, i, n_members, params_out, stat)])]

\* (mutant) the columns looked up before the loop over the rows
compute_pointwise_checks_first(ens_df, n_members, params_out, stat) ==
    IF MissingColumn(ens_df, n_members, params_out)
    THEN [raise |-> "KeyError"]
    ELSE [df |-> AppendRows(
                    DataFrame(<<"dates", "echeances">> \o params_out),
                    [i \in 1..len(ens_df) |->
                        StatRow(ens_df, i, n_members, params_out, stat)])]

\* the body the four functions share: the table, or the KeyError the first
\* row raises
compute_pointwise(ens_df, n_members, params_out, stat) ==
    IF len(ens_df) > 0 /\ MissingColumn(ens_df, n_members, params_out)
    THEN [raise |-> "KeyError"]
    ELSE [df |-> AppendRows(
                    DataFrame(<<"dates", "echeances">> \o params_out),
                    [i \in 1..len(ens_df) |->
                        StatRow(ens_df, i, n_members, params_out, stat)])]

compute_pointwise_mean(ens_df, n_members, params_out) ==
    compute_pointwise(ens_df, n_members, params_out, "mean")

compute_pointwise_std(ens_df, n_members, params_out) ==
    compute_pointwise(ens_df, n_members, params_out, "std")

compute_pointwise_Q5(ens_df, n_members, params_out) ==
    compute_pointwise(ens_df, n_members, params_out, "Q5")

compute_pointwise_Q95(ens_df, n_members, params_out) ==
    compute_pointwise(ens_df, n_members, params_out, "Q95")

(***************************************************************************)
(* Specification SpecStat: the four statistics of one drawn table, called  *)
(* with a drawn member count and parameter list.  Each call's outcome is   *)
(* kept: [df] the table returned, or [raise] the exception raised.         *)
(***************************************************************************)
\* the number of the grid of member m, parameter ip in a row of pattern k
SeedOf(k, m, ip) ==
    IF k = 1 THEN m + 4 * (ip - 1)
    ELSE IF k = 2 THEN 3 + ip
    ELSE ((5 * m) % 7) + ip

Patterns == {1, 2, 3}

\* the parameter lists requested; t2m is in no table
ParamRequests == { <<"u10">>, <<"u10", "v10">>, <<"v10", "u10">>, <<"t2m">> }

\* a table of nm members whose i-th row has pattern pat[i]
StatTable(nm, pat) ==
    [columns |-> KeyCols
                 \o Flatten([ip \in 1..Len(params) |->
                        [j \in 1..nm |-> MemberCol(params[ip], j)]]),
     index |-> [i \in 1..Len(pat) |-> i - 1],
     data |-> [i \in 1..Len(pat) |->
                  <<DateStr("T", 24 * i), IntCell(6)>>
                  \o Flatten([ip \in 1..Len(params) |->
                         [j \in 1..nm |-> MkGrid(SeedOf(pat[i], j, ip))]])]]

InitStat ==
    /\ MainIdle
    /\ pc = "mean"
    /\ exception = "none"
    /\ \E nm \in 1..MaxStatMembers :
          \E pat \in UNION {[1..r -> Patterns] : r \in 0..MaxStatRows} :
             arg_ens_df = StatTable(nm, pat)
    /\ arg_n_members \in 1..MaxStatMembers
    /\ arg_params_out \in ParamRequests
    /\ mean_df = None /\ std_df = None /\ Q5_df = None /\ Q95_df = None
    /\ LoadIdle
    /\ MergeIdle
    /\ unique_df = None

ComputeMean ==
    /\ pc = "mean"
    /\ mean_df' = compute_pointwise_mean(arg_ens_df, arg_n_members, arg_params_out)
    /\ pc' = "std"
    /\ UNCHANGED <<mainVars, exception, loadVars, mergeVars, arg_ens_df, arg_n_members,
                   arg_params_out, std_df, Q5_df, Q95_df>>

ComputeStd ==
    /\ pc = "std"
    /\ std_df' = compute_pointwise_std(arg_ens_df, arg_n_members, arg_params_out)
    /\ pc' = "Q5"
    /\ UNCHANGED <<mainVars, exception, loadVars, mergeVars, arg_ens_df, arg_n_members,
                   arg_params_out, mean_df, Q5_df, Q95_df>>

ComputeQ5 ==
    /\ pc = "Q5"
    /\ Q5_df' = compute_pointwise_Q5(arg_ens_df, arg_n_members, arg_params_out)
    /\ pc' = "Q95"
    /\ UNCHANGED <<mainVars, exception, loadVars, mergeVars, arg_ens_df, arg_n_members,
                   arg_params_out, mean_df, std_df, Q95_df>>

ComputeQ95 ==
    /\ pc = "Q95"
    /\ Q95_df' = compute_pointwise_Q95(arg_ens_df, arg_n_members, arg_params_out)
    /\ pc' = "done"
    /\ UNCHANGED <<mainVars, exception, loadVars, mergeVars, arg_ens_df, arg_n_members,
                   arg_params_out, mean_df, std_df, Q5_df>>

NextStat == ComputeMean \/ ComputeStd \/ ComputeQ5 \/ ComputeQ95

SpecStat == InitStat /\ [][NextStat]_vars

(***************************************************************************)
(* Properties of the statistics (SpecStat).                                *)
(***************************************************************************)
\* the calls made so far, as <<name, outcome>>
Calls ==
    {c \in { <<"mean", mean_df>>, <<"std", std_df>>,
             <<"Q5", Q5_df>>, <<"Q95", Q95_df>> } : c[2] # None}

Returned(outcome) == "df" \in DOMAIN outcome

\* every column the call reads is in the table
WellFormed == ~MissingColumn(arg_ens_df, arg_n_members, arg_params_out)

\* C9: each of compute_pointwise_mean, _std, _Q5 and _Q95, called with
\* parameters and a member count the table has the columns of, returns a
\* table with one row per input row, in input order, under the (dates,
\* echeances) key of that input row, with the columns dates, echeances and
\* one per requested parameter, named by the parameter alone and holding a
\* grid.
C9_StatTableShape ==
    \A c \in Calls :
        /\ WellFormed => Returned(c[2])
        /\ Returned(c[2]) =>
              /\ c[2].df.columns = <<"dates", "echeances">> \o arg_params_out
              /\ len(c[2].df) = len(arg_ens_df)
              /\ DenseIndex(c[2].df)
              /\ \A i \in 1..len(arg_ens_df) :
                    /\ KeyOf(c[2].df, i) = KeyOf(arg_ens_df, i)
                    /\ \A ip \in 1..Len(arg_params_out) :
                          IsGrid(Cell(c[2].df, arg_params_out[ip], i))

\* C9 witness: the four statistics of a table of two rows were computed for
\* the parameters v10 and u10.
C9_Witness ==
    /\ pc = "done"
    /\ \A c \in Calls : Returned(c[2])
    /\ len(arg_ens_df) = 2
    /\ arg_params_out = <<"v10", "u10">>
    /\ len(Q95_df.df) = 2

\* the grids of the example: [[1,2],[3,4]], [[2,2],[4,4]], [[3,2],[5,4]]
ExampleGrids ==
    << [grid |-> << <<1, 2>>, <<3, 4>> >>],
       [grid |-> << <<2, 2>>, <<4, 4>> >>],
       [grid |-> << <<3, 2>>, <<5, 4>> >>] >>

\* row i holds the example's grids for u10 and the call averages 3 members
IsExample(i) ==
    /\ arg_n_members = 3
    /\ "u10" \in Range(arg_params_out)
    /\ HasCol(arg_ens_df, "u10_3")
    /\ [j \in 1..3 |-> Cell(arg_ens_df, MemberCol("u10", j), i)] = ExampleGrids

\* C10: every cell of every grid compute_pointwise_mean returns is the
\* arithmetic mean of the same cell of the grids of members
\* 1..member_count of that parameter in that row (a fraction in lowest
\* terms whose product with member_count is their sum); for the example's
\* three grids the mean grid is [[2,2],[4,4]].
C10_Mean ==
    (mean_df # None /\ Returned(mean_df)) =>
        \A i \in 1..len(arg_ens_df), ip \in 1..Len(arg_params_out) :
            LET g == Cell(mean_df.df, arg_params_out[ip], i).grid
            IN  /\ \A h \in 1..domain_shape[1], w \in 1..domain_shape[2] :
                      /\ g[h][w].den > 0
                      /\ GCD(Abs(g[h][w].num), g[h][w].den) = 1
                      /\ g[h][w].num * arg_n_members
                            = g[h][w].den
                              * Sum([j \in 1..arg_n_members |->
                                       Cell(arg_ens_df,
                                            MemberCol(arg_params_out[ip], j),
                                            i).grid[h][w]])
                /\ (IsExample(i) /\ arg_params_out[ip] = "u10") =>
                      g = << <<[num |-> 2, den |-> 1], [num |-> 2, den |-> 1]>>,
                             <<[num |-> 4, den |-> 1], [num |-> 4, den |-> 1]>> >>

\* C10 witness: the mean of the example's three grids was computed.
C10_Witness ==
    /\ mean_df # None
    /\ Returned(mean_df)
    /\ len(arg_ens_df) > 0
    /\ IsExample(1)
    /\ len(mean_df.df) = len(arg_ens_df)

\* the cell (h, w) of the grid a returned table holds for parameter ip, row i
StatCell(outcome, i, ip, h, w) ==
    Cell(outcome.df, arg_params_out[ip], i).grid[h][w]

\* the cell (h, w) of member j's grid for parameter ip in row i of the input
MemberCell(i, ip, j, h, w) ==
    Cell(arg_ens_df, MemberCol(arg_params_out[ip], j), i).grid[h][w]

\* the rows, parameters and cells of a returned table
StatCells ==
    (1..len(arg_ens_df)) \X (1..Len(arg_params_out))
        \X (1..domain_shape[1]) \X (1..domain_shape[2])

\* C11: for one input table, member count and parameter list, every cell of
\* every grid of every row of the compute_pointwise_Q5 result is less than
\* or equal to the same cell of the compute_pointwise_Q95 result, and the
\* two results have the same rows.
C11_Q5LeqQ95 ==
    (Q5_df # None /\ Q95_df # None /\ Returned(Q5_df) /\ Returned(Q95_df)) =>
        /\ len(Q5_df.df) = len(Q95_df.df)
        /\ \A x \in StatCells :
              RatLeq(StatCell(Q5_df, x[1], x[2], x[3], x[4]),
                     StatCell(Q95_df, x[1], x[2], x[3], x[4]))

\* C11 witness: both percentiles of three members were computed and differ
\* in some cell.
C11_Witness ==
    /\ pc = "done"
    /\ Returned(Q5_df) /\ Returned(Q95_df)
    /\ arg_n_members = 3
    /\ \E x \in StatCells :
          StatCell(Q5_df, x[1], x[2], x[3], x[4])
             # StatCell(Q95_df, x[1], x[2], x[3], x[4])

\* C12: with member_count = 1 and parameters the table holds, each of the
\* four calls returns, and in every row and for every parameter each cell
\* of the mean, the Q5 and the Q95 grid is the value of that cell in the
\* grid of member 1, and each cell of the std grid is zero.
C12_SingleMember ==
    arg_n_members = 1 =>
        \A c \in Calls :
            /\ WellFormed => Returned(c[2])
            /\ Returned(c[2]) =>
                  \A x \in StatCells :
                      LET v == MemberCell(x[1], x[2], 1, x[3], x[4])
                          r == StatCell(c[2], x[1], x[2], x[3], x[4])
                      IN  IF c[1] = "std"
                          THEN r = [sqrt |-> [num |-> 0, den |-> 1]]
                          ELSE r = [num |-> v, den |-> 1]

\* C12 witness: the four statistics of a table of one member, of at least
\* one row, were computed with member_count = 1.
C12_Witness ==
    /\ pc = "done"
    /\ arg_n_members = 1
    /\ len(arg_ens_df) > 0
    /\ HasCol(arg_ens_df, "u10_1") /\ ~HasCol(arg_ens_df, "u10_2")
    /\ Returned(std_df) /\ len(std_df.df) = len(arg_ens_df)

\* the members j for which the table holds the column p_j
MemberColumns(df, p) ==
    {j \in 1..Len(df.columns) : HasCol(df, MemberCol(p, j))}

\* member_count exceeds the member columns the table holds for a requested
\* parameter (none at all for a parameter the table lacks)
TooFewColumns ==
    \E ip \in 1..Len(arg_params_out) :
        arg_n_members
            > Cardinality(MemberColumns(arg_ens_df, arg_params_out[ip]))

\* member_count differs from the member columns the table holds for a
\* requested parameter
Malformed ==
    \E ip \in 1..Len(arg_params_out) :
        arg_n_members
            # Cardinality(MemberColumns(arg_ens_df, arg_params_out[ip]))

\* C13 as stated: whenever member_count differs from the number of member
\* columns present for a requested parameter (more or fewer), or a
\* requested parameter is absent from the table, each compute_pointwise_*
\* call fails with an error instead of returning a table.
C13_MalformedIsFatal ==
    \A c \in Calls : Malformed => ~Returned(c[2])

\* C13 as amended: on a table of at least one row each compute_pointwise_*
\* call fails with a KeyError when member_count exceeds the member columns
\* present for a requested parameter or a requested parameter is absent;
\* it returns a table of one row per input row when member_count is at most
\* the member columns present for every requested parameter (fewer
\* included); and on a table of zero rows it returns a table of zero rows
\* whatever the member count and the parameters.
C13_KeyErrorOnMissingColumn ==
    \A c \in Calls :
        /\ (len(arg_ens_df) > 0 /\ TooFewColumns) =>
              c[2] = [raise |-> "KeyError"]
        /\ ~TooFewColumns =>
              Returned(c[2]) /\ len(c[2].df) = len(arg_ens_df)
        /\ len(arg_ens_df) = 0 =>
              Returned(c[2]) /\ len(c[2].df) = 0

\* C13 witness: the four calls on a table of two members and at least one
\* row, asked for three members, all raised.
C13_Witness ==
    /\ pc = "done"
    /\ len(arg_ens_df) > 0
    /\ arg_n_members = 3
    /\ arg_params_out = <<"u10", "v10">>
    /\ Cardinality(MemberColumns(arg_ens_df, "u10")) = 2
    /\ \A c \in Calls : c[2] = [raise |-> "KeyError"]
    /\ Cardinality(Calls) = 4

(***************************************************************************)
(* The synthesis functions, as far as they build tables: the figures they  *)
(* draw from all_stats_df, D and D_std are not part of the state.          *)
(***************************************************************************)
\* param = "u10"
param == "u10"

\* df[[c1, c2, ...]]: the columns cols of df, in that order
select(df, cols) ==
    [columns |-> cols,
     index |-> df.index,
     data |-> [i \in 1..len(df) |->
                  [j \in 1..Len(cols) |-> Cell(df, cols[j], i)]]]

\* .rename(columns={param + m: param + m + "_<stat>" for m in [...]}) of a
\* table that holds those columns only
rename_stat(df, stat) ==
    [df EXCEPT !.columns = [j \in 1..Len(df.columns) |->
                               df.columns[j] \o "_" \o stat]]

\* the columns param_arome, param_ddpm of a merged table, renamed for stat
StatColumns(df, prm, stat) ==
    rename_stat(select(df, <<prm \o "_arome", prm \o "_ddpm">>), stat)

\* all_stats_df of synthesis_unique_all_stats_ensemble
synthesis_unique_all_stats_ensemble(m_df, s_df, q5_df, q95_df, prm) ==
    LET t0 == concat_axis1(DataFrame(<<>>),
                           select(m_df, <<"dates", "echeances">>))
        t1 == concat_axis1(t0, StatColumns(m_df, prm, "mean"))
        t2 == concat_axis1(t1, StatColumns(s_df, prm, "std"))
        t3 == concat_axis1(t2, StatColumns(q5_df, prm, "Q5"))
    IN  concat_axis1(t3, StatColumns(q95_df, prm, "Q95"))

\* grid.mean(): the mean of the cells of a grid of fractions
grid_mean(g) ==
    LET cells == Flatten(g)
    IN  RatMul(RatSum(cells), Rat(1, Len(cells)))

\* D of synthesis_stat_distrib: per row, the grid means of mean, Q5, Q95 of
\* the ddpm columns, then of the arome columns
stat_distrib_D(m_df, q5_df, q95_df, prm) ==
    [i \in 1..len(m_df) |->
        << grid_mean(Cell(m_df, prm \o "_ddpm", i).grid),
           grid_mean(Cell(q5_df, prm \o "_ddpm", i).grid),
           grid_mean(Cell(q95_df, prm \o "_ddpm", i).grid),
           grid_mean(Cell(m_df, prm \o "_arome", i).grid),
           grid_mean(Cell(q5_df, prm \o "_arome", i).grid),
           grid_mean(Cell(q95_df, prm \o "_arome", i).grid) >>]

\* D_std of synthesis_stat_distrib: per row, the grid means of the std of
\* the ddpm and of the arome column; the mean of roots is kept as the
\* cells it is the mean of
stat_distrib_D_std(s_df, m_df, prm) ==
    [i \in 1..len(m_df) |->
        << [mean_of |-> Flatten(Cell(s_df, prm \o "_ddpm", i).grid)],
           [mean_of |-> Flatten(Cell(s_df, prm \o "_arome", i).grid)] >>]

(***************************************************************************)
(* Specification SpecMain: the script under __main__, statement by         *)
(* statement, over drawn file systems: the two loaders, the date           *)
(* correction, the eight statistic tables, the four merges and the three   *)
(* synthesis calls.  The per-member files of load_ensemble hold the same   *)
(* rows, and a date of load_ensemble_arome has all its files or lacks its  *)
(* first one.                                                              *)
(***************************************************************************)
InitMain ==
    /\ pc = "main_load_ensemble"
    /\ exception = "none"
    /\ \E n \in 1..MaxDates, sep \in {"T", " "} :
          /\ dates = [i \in 1..n |-> DateStr(sep, RequestedInstant(i))]
          /\ files_arome \in [1..n -> {NoFile, <<1, 1>>}]
    /\ \E r \in 0..MaxFileRows :
          files_ddpm = [m \in 1..NMembers |-> PredFile(m, r)]
    /\ ddpm = None /\ arome = None /\ arome_corrected = None
    /\ MergeIdle
    /\ unique_df = None
    /\ StatIdle
    /\ MainIdle

\* ddpm = load_ensemble(working_dir, n_members=50, params=params)
MainLoadEnsemble ==
    /\ pc = "main_load_ensemble"
    /\ ddpm' = load_ensemble(files_ddpm, NMembers, params)
    /\ pc' = "main_load_ensemble_arome"
    /\ UNCHANGED <<exception, files_ddpm, files_arome, dates, arome,
                   arome_corrected, mergeVars, statVars, mainVars>>

\* arome = load_ensemble_arome(dates=dates_arome, ..., n_members=17, ...)
MainLoadEnsembleArome ==
    /\ pc = "main_load_ensemble_arome"
    /\ LET r == load_ensemble_arome(dates, echeances_arome, params, NMembers,
                                    files_arome)
       IN  IF r.raise = "none"
           THEN /\ arome' = r.df
                /\ pc' = "main_correct_dates"
                /\ exception' = exception
           ELSE /\ arome' = arome
                /\ pc' = "raised"
                /\ exception' = r.raise
    /\ UNCHANGED <<files_ddpm, files_arome, dates, ddpm, arome_corrected,
                   mergeVars, statVars, mainVars>>

\* arome = correct_dates_for_arome(arome)
MainCorrectDates ==
    /\ pc = "main_correct_dates"
    /\ arome_corrected' = correct_dates_for_arome(arome)
    /\ pc' = "mean_arome"
    /\ UNCHANGED <<exception, files_ddpm, files_arome, dates, ddpm, arome,
                   mergeVars, statVars, mainVars>>

\* mean_arome = compute_pointwise_mean(arome, 17, params)
ComputeMeanArome ==
    /\ pc = "mean_arome"
    /\ LET r == compute_pointwise_mean(arome_corrected, NMembers, params)
       IN  IF Returned(r)
           THEN /\ mean_arome' = r.df
                /\ pc' = "std_arome"
                /\ exception' = exception
           ELSE /\ mean_arome' = mean_arome
                /\ pc' = "raised"
                /\ exception' = r.raise
    /\ UNCHANGED <<std_arome, Q5_arome, Q95_arome, mean_ddpm, std_ddpm,
                   Q5_ddpm, Q95_ddpm, mean, std, Q95, Q5, all_stats_df, D,
                   D_std, loadVars, mergeVars, statVars>>

\* std_arome = compute_pointwise_std(arome, 17, params)
ComputeStdArome ==
    /\ pc = "std_arome"
    /\ LET r == compute_pointwise_std(arome_corrected, NMembers, params)
       IN  IF Returned(r)
           THEN /\ std_arome' = r.df
                /\ pc' = "Q5_arome"
                /\ exception' = exception
           ELSE /\ std_arome' = std_arome
                /\ pc' = "raised"
                /\ exception' = r.raise
    /\ UNCHANGED <<mean_arome, Q5_arome, Q95_arome, mean_ddpm, std_ddpm,
                   Q5_ddpm, Q95_ddpm, mean, std, Q95, Q5, all_stats_df, D,
                   D_std, loadVars, mergeVars, statVars>>

\* Q5_arome = compute_pointwise_Q5(arome, 17, params)
ComputeQ5Arome ==
    /\ pc = "Q5_arome"
    /\ LET r == compute_pointwise_Q5(arome_corrected, NMembers, params)
       IN  IF Returned(r)
           THEN /\ Q5_arome' = r.df
                /\ pc' = "Q95_arome"
                /\ exception' = exception
           ELSE /\ Q5_arome' = Q5_arome
                /\ pc' = "raised"
                /\ exception' = r.raise
    /\ UNCHANGED <<mean_arome, std_arome, Q95_arome, mean_ddpm, std_ddpm,
                   Q5_ddpm, Q95_ddpm, mean, std, Q95, Q5, all_stats_df, D,
                   D_std, loadVars, mergeVars, statVars>>

\* Q95_arome = compute_pointwise_Q95(arome, 17, params)
ComputeQ95Arome ==
    /\ pc = "Q95_arome"
    /\ LET r == compute_pointwise_Q95(arome_corrected, NMembers, params)
       IN  IF Returned(r)
           THEN /\ Q95_arome' = r.df
                /\ pc' = "mean_ddpm"
                /\ exception' = exception
           ELSE /\ Q95_arome' = Q95_arome
                /\ pc' = "raised"
                /\ exception' = r.raise
    /\ UNCHANGED <<mean_arome, std_arome, Q5_arome, mean_ddpm, std_ddpm,
                   Q5_ddpm, Q95_ddpm, mean, std, Q95, Q5, all_stats_df, D,
                   D_std, loadVars, mergeVars, statVars>>

\* mean_ddpm = compute_pointwise_mean(ddpm, 50, params)
ComputeMeanDdpm ==
    /\ pc = "mean_ddpm"
    /\ LET r == compute_pointwise_mean(ddpm, NMembers, params)
       IN  IF Returned(r)
           THEN /\ mean_ddpm' = r.df
                /\ pc' = "std_ddpm"
                /\ exception' = exception
           ELSE /\ mean_ddpm' = mean_ddpm
                /\ pc' = "raised"
                /\ exception' = r.raise
    /\ UNCHANGED <<mean_arome, std_arome, Q5_arome, Q95_arome, std_ddpm,
                   Q5_ddpm, Q95_ddpm, mean, std, Q95, Q5, all_stats_df, D,
                   D_std, loadVars, mergeVars, statVars>>

\* std_ddpm = compute_pointwise_std(ddpm, 50, params)
ComputeStdDdpm ==
    /\ pc = "std_ddpm"
    /\ LET r == compute_pointwise_std(ddpm, NMembers, params)
       IN  IF Returned(r)
           THEN /\ std_ddpm' = r.df
                /\ pc' = "Q5_ddpm"
                /\ exception' = exception
           ELSE /\ std_ddpm' = std_ddpm
                /\ pc' = "raised"
                /\ exception' = r.raise
    /\ UNCHANGED <<mean_arome, std_arome, Q5_arome, Q95_arome, mean_ddpm,
                   Q5_ddpm, Q95_ddpm, mean, std, Q95, Q5, all_stats_df, D,
                   D_std, loadVars, mergeVars, statVars>>

\* Q5_ddpm = compute_pointwise_Q5(ddpm, 50, params)
ComputeQ5Ddpm ==
    /\ pc = "Q5_ddpm"
    /\ LET r == compute_pointwise_Q5(ddpm, NMembers, params)
       IN  IF Returned(r)
           THEN /\ Q5_ddpm' = r.df
                /\ pc' = "Q95_ddpm"
                /\ exception' = exception
           ELSE /\ Q5_ddpm' = Q5_ddpm
                /\ pc' = "raised"
                /\ exception' = r.raise
    /\ UNCHANGED <<mean_arome, std_arome, Q5_arome, Q95_arome, mean_ddpm,
                   std_ddpm, Q95_ddpm, mean, std, Q95, Q5, all_stats_df, D,
                   D_std, loadVars, mergeVars, statVars>>

\* Q95_ddpm = compute_pointwise_Q95(ddpm, 50, params)
ComputeQ95Ddpm ==
    /\ pc = "Q95_ddpm"
    /\ LET r == compute_pointwise_Q95(ddpm, NMembers, params)
       IN  IF Returned(r)
           THEN /\ Q95_ddpm' = r.df
                /\ pc' = "group_mean"
                /\ exception' = exception
           ELSE /\ Q95_ddpm' = Q95_ddpm
                /\ pc' = "raised"
                /\ exception' = r.raise
    /\ UNCHANGED <<mean_arome, std_arome, Q5_arome, Q95_arome, mean_ddpm,
                   std_ddpm, Q5_ddpm, mean, std, Q95, Q5, all_stats_df, D,
                   D_std, loadVars, mergeVars, statVars>>

\* mean = group_ensembles(mean_arome, mean_ddpm)
GroupMean ==
    /\ pc = "group_mean"
    /\ mean' = group_ensembles(mean_arome, mean_ddpm)
    /\ pc' = "group_std"
    /\ UNCHANGED <<exception, mean_arome, std_arome, Q5_arome, Q95_arome,
                   mean_ddpm, std_ddpm, Q5_ddpm, Q95_ddpm, std, Q95, Q5,
                   all_stats_df, D, D_std, loadVars, mergeVars, statVars>>

\* std = group_ensembles(std_arome, std_ddpm)
GroupStd ==
    /\ pc = "group_std"
    /\ std' = group_ensembles(std_arome, std_ddpm)
    /\ pc' = "group_Q95"
    /\ UNCHANGED <<exception, mean_arome, std_arome, Q5_arome, Q95_arome,
                   mean_ddpm, std_ddpm, Q5_ddpm, Q95_ddpm, mean, Q95, Q5,
                   all_stats_df, D, D_std, loadVars, mergeVars, statVars>>

\* Q95 = group_ensembles(Q5_arome, Q5_ddpm)
GroupQ95 ==
    /\ pc = "group_Q95"
    /\ Q95' = group_ensembles(Q5_arome, Q5_ddpm)
    /\ pc' = "group_Q5"
    /\ UNCHANGED <<exception, mean_arome, std_arome, Q5_arome, Q95_arome,
                   mean_ddpm, std_ddpm, Q5_ddpm, Q95_ddpm, mean, std, Q5,
                   all_stats_df, D, D_std, loadVars, mergeVars, statVars>>

\* Q5 = group_ensembles(Q95_arome, Q95_ddpm)
GroupQ5 ==
    /\ pc = "group_Q5"
    /\ Q5' = group_ensembles(Q95_arome, Q95_ddpm)
    /\ pc' = "synthesis_unique"
    /\ UNCHANGED <<exception, mean_arome, std_arome, Q5_arome, Q95_arome,
                   mean_ddpm, std_ddpm, Q5_ddpm, Q95_ddpm, mean, std, Q95,
                   all_stats_df, D, D_std, loadVars, mergeVars, statVars>>

\* synthesis_unique_all_stats_ensemble(mean, std, Q5, Q95, working_dir, param)
SynthesisUnique ==
    /\ pc = "synthesis_unique"
    /\ mean_df' = mean /\ std_df' = std /\ Q5_df' = Q5 /\ Q95_df' = Q95
    /\ all_stats_df' = synthesis_unique_all_stats_ensemble(mean, std, Q5, Q95,
                                                           param)
    /\ pc' = "synthesis_distrib"
    /\ UNCHANGED <<exception, arg_ens_df, arg_n_members, arg_params_out,
                   mean_arome, std_arome, Q5_arome, Q95_arome, mean_ddpm,
                   std_ddpm, Q5_ddpm, Q95_ddpm, mean, std, Q95, Q5, D, D_std,
                   loadVars, mergeVars>>

\* synthesis_stat_distrib(mean, std, Q5, Q95, working_dir, param)
SynthesisDistrib ==
    /\ pc = "synthesis_distrib"
    /\ mean_df' = mean /\ std_df' = std /\ Q5_df' = Q5 /\ Q95_df' = Q95
    /\ D' = stat_distrib_D(mean, Q5, Q95, param)
    /\ D_std' = stat_distrib_D_std(std, mean, param)
    /\ pc' = "synthesis_unique_again"
    /\ UNCHANGED <<exception, arg_ens_df, arg_n_members, arg_params_out,
                   mean_arome, std_arome, Q5_arome, Q95_arome, mean_ddpm,
                   std_ddpm, Q5_ddpm, Q95_ddpm, mean, std, Q95, Q5,
                   all_stats_df, loadVars, mergeVars>>

\* synthesis_unique_all_stats_ensemble(mean, std, Q5, Q95, working_dir, param),
\* called a second time
SynthesisUniqueAgain ==
    /\ pc = "synthesis_unique_again"
    /\ mean_df' = mean /\ std_df' = std /\ Q5_df' = Q5 /\ Q95_df' = Q95
    /\ all_stats_df' = synthesis_unique_all_stats_ensemble(mean, std, Q5, Q95,
                                                           param)
    /\ pc' = "done"
    /\ UNCHANGED <<exception, arg_ens_df, arg_n_members, arg_params_out,
                   mean_arome, std_arome, Q5_arome, Q95_arome, mean_ddpm,
                   std_ddpm, Q5_ddpm, Q95_ddpm, mean, std, Q95, Q5, D, D_std,
                   loadVars, mergeVars>>

NextMain ==
    \/ MainLoadEnsemble
    \/ MainLoadEnsembleArome
    \/ MainCorrectDates
    \/ ComputeMeanArome
    \/ ComputeStdArome
    \/ ComputeQ5Arome
    \/ ComputeQ95Arome
    \/ ComputeMeanDdpm
    \/ ComputeStdDdpm
    \/ ComputeQ5Ddpm
    \/ ComputeQ95Ddpm
    \/ GroupMean
    \/ GroupStd
    \/ GroupQ95
    \/ GroupQ5
    \/ SynthesisUnique
    \/ SynthesisDistrib
    \/ SynthesisUniqueAgain

SpecMain == InitMain /\ [][NextMain]_vars

(***************************************************************************)
(* Properties of the main script (SpecMain).                               *)
(***************************************************************************)
\* the statistic tables computed so far, each with the table it was
\* computed from
StatsComputed ==
    {t \in { <<mean_arome, arome_corrected>>, <<std_arome, arome_corrected>>,
             <<Q5_arome, arome_corrected>>, <<Q95_arome, arome_corrected>>,
             <<mean_ddpm, ddpm>>, <<std_ddpm, ddpm>>,
             <<Q5_ddpm, ddpm>>, <<Q95_ddpm, ddpm>> } : t[1] # None}

\* the merges made so far, as <<result, first argument, second argument>>
MergesMade ==
    {t \in { <<mean, mean_arome, mean_ddpm>>, <<std, std_arome, std_ddpm>>,
             <<Q95, Q5_arome, Q5_ddpm>>, <<Q5, Q95_arome, Q95_ddpm>> } :
        t[1] # None}

\* C14: an empty join result flows through the script: no statement
\* raises; each compute_pointwise_* call on a table of zero rows returns a
\* table of zero rows with the columns dates, echeances and one per
\* requested parameter; and each group_ensembles call on two tables with
\* no common key returns a table of zero rows.
C14_EmptyJoinFlows ==
    /\ exception = "none"
    /\ pc # "raised"
    /\ \A t \in StatsComputed :
          len(t[2]) = 0 =>
              /\ len(t[1]) = 0
              /\ t[1].columns = <<"dates", "echeances">> \o params
    /\ \A t \in MergesMade :
          Keys(t[2]) \cap Keys(t[3]) = {} =>
              /\ len(t[1]) = 0
              /\ Range(KeyCols) \subseteq Range(t[1].columns)

\* C14 witness: no file of the Arome ensemble was found, the four
\* statistics of its zero rows were computed and merged with those of a
\* DDPM ensemble of at least one row, and the script ran to its end.
C14_Witness ==
    /\ pc = "done"
    /\ len(arome_corrected) = 0
    /\ len(ddpm) > 0
    /\ len(Q95_arome) = 0 /\ len(Q95_ddpm) > 0
    /\ len(mean) = 0 /\ len(Q5) = 0

\* the synthesis functions have been called
Passed == pc \in {"synthesis_distrib", "synthesis_unique_again", "done"}

\* the grid cells of the value columns of a merged statistic table
MergedCells(df) ==
    (1..len(df)) \X Range(ValueCols(df))
        \X (1..domain_shape[1]) \X (1..domain_shape[2])

\* C15: in the main script the table passed as Q5_df to the synthesis
\* functions is the merge of the two sources' 5th-percentile tables, the
\* table passed as Q95_df is the merge of their 95th-percentile tables, and
\* every cell of the Q5_df table is less than or equal to the same cell of
\* the Q95_df table.
C15_PercentilesPassedInOrder ==
    Passed =>
        /\ Q5_df = group_ensembles(Q5_arome, Q5_ddpm)
        /\ Q95_df = group_ensembles(Q95_arome, Q95_ddpm)
        /\ \A x \in MergedCells(Q5_df) :
              RatLeq(Cell(Q5_df, x[2], x[1]).grid[x[3]][x[4]],
                     Cell(Q95_df, x[2], x[1]).grid[x[3]][x[4]])

====
